---- MODULE Spec2Model ----
(***************************************************************************)
(* SkillMatch: the skill-matching and recommendation pipeline of           *)
(* src/analysis.py and the Send handler of src/app.py.                     *)
(*                                                                         *)
(* Three specifications:                                                   *)
(*   Spec     the Send handler: vacancy_description_and_applicant_skills   *)
(*            run link by link, then the rendering of its result;          *)
(*   SpecTop  get_top_vacancies as a pure function of (vacancies, top_n);  *)
(*   SpecRec  generate_recommendations as a pure function of its four      *)
(*            arguments.                                                   *)
(*                                                                         *)
(* Floats.  A precision is the double nearest to k/n and is written as the *)
(* reduced fraction [num, den]; a threshold literal likewise.  Rounding to *)
(* nearest is monotone and one-to-one on fractions of small denominator,   *)
(* so comparing two such doubles is comparing the fractions.  The sum and  *)
(* the mean of line 289 are computed in IEEE-754 binary64, rounding to     *)
(* nearest-even, on the 53-bit significand hi * 2^26 + lo with exponent e  *)
(* (value = significand * 2^e).  The built-in sum rounds after every       *)
(* addition on CPython up to 3.11 and compensates the rounding errors from *)
(* 3.12 on: the model allows both values and the handler takes either.     *)
(***************************************************************************)
EXTENDS Integers, Sequences, FiniteSets, TLC

VARIABLES
    \* ---- src/app.py, the Send handler and the call it makes ----
    position,          \* st.sidebar.text_input: the job title
    skills,            \* st.session_state["skills"]
    links,             \* get_links(position, grade_option, pages=1)
    threshold_ready,   \* parameter of vacancy_description_and_applicant_skills
    pc,                \* position of the handler
    responses,         \* outcome of each requests.get(link) made so far
    applicant_skills,  \* local: the lower-cased skills
    precisions,        \* local
    vacancies,         \* local
    missing_skills,    \* local of generate_recommendations
    result,            \* value returned by the call
    exc,               \* exception that left the handler uncaught
    ui,                \* what the handler rendered
    \* ---- pure-function specifications ----
    args,              \* arguments of the function under study
    ret,               \* its return value
    ret2,              \* return value of a second application (SpecTop)
    fpc                \* "ready" | "called" | "twice"

vars == <<position, skills, links, threshold_ready, pc, responses,
          applicant_skills, precisions, vacancies, missing_skills, result,
          exc, ui, args, ret, ret2, fpc>>

appVars == <<position, skills, links, threshold_ready, pc, responses,
             applicant_skills, precisions, vacancies, missing_skills, result,
             exc, ui>>

fnVars == <<args, ret, ret2, fpc>>

(***************************************************************************)
(* Bounds of the model.                                                    *)
(***************************************************************************)
MaxLinks == 3      \* links returned by get_links
MaxTopLen == 3     \* length of the list given to get_top_vacancies
MaxTopN == 4       \* top_n ranges over -MaxTopN .. MaxTopN
MaxRecVac == 2     \* vacancies given to generate_recommendations

(***************************************************************************)
(* Program constants.                                                      *)
(***************************************************************************)
DefaultTopN == 3           \* get_top_vacancies(vacancies, top_n=3)
MaxCourseSkills == 3       \* if len(missing_skills) > 3
DefaultThreshold == [num |-> 4, den |-> 5]   \* threshold=0.8
CourseraSearch == "https://www.coursera.org/search?query="

(***************************************************************************)
(* Python values.                                                          *)
(***************************************************************************)
None == [type |-> "NoneType"]
PyStr(s) == [type |-> "str", val |-> s]
PyList(s) == [type |-> "list", val |-> s]
PyDict(d) == [type |-> "dict", val |-> d]
Unset == [type |-> "unset"]

ToSet(s) == {s[i] : i \in DOMAIN s}
SeqsUpTo(S, n) == UNION {[1..k -> S] : k \in 0..n}
Min(a, b) == IF a < b THEN a ELSE b
Max(a, b) == IF a > b THEN a ELSE b
Reverse(s) == [i \in 1..Len(s) |-> s[Len(s) + 1 - i]]

(***************************************************************************)
(* The double nearest to k/n, written as the reduced fraction k/n.         *)
(***************************************************************************)
RECURSIVE GCD(_, _)
GCD(a, b) == IF b = 0 THEN a ELSE GCD(b, a % b)

Rat(n, d) == IF n = 0 THEN [num |-> 0, den |-> 1]
             ELSE [num |-> n \div GCD(n, d), den |-> d \div GCD(n, d)]
RatLess(a, b) == a.num * b.den < b.num * a.den

(***************************************************************************)
(* IEEE-754 binary64 arithmetic on non-negative values.                    *)
(* A double is [hi, lo, e]: significand hi * 2^26 + lo in [2^52, 2^53),    *)
(* value significand * 2^e; zero is [0, 0, 0].  Denominators and divisors  *)
(* stay below 16 and exponents within 26 of each other, so that every      *)
(* intermediate product fits the integers of the checker.                  *)
(***************************************************************************)
RECURSIVE Pow2(_)
Pow2(n) == IF n = 0 THEN 1 ELSE 2 * Pow2(n - 1)

Limb == Pow2(26)
FZero == [hi |-> 0, lo |-> 0, e |-> 0]
Cmp(a, b) == IF a > b THEN 1 ELSE IF a = b THEN 0 ELSE 0 - 1

\* round to nearest, ties to even: half is the discarded part compared with
\* half a unit in the last place (1 above, 0 equal, -1 below)
FRound(hi, lo, e, half) ==
    LET up == half > 0 \/ (half = 0 /\ lo % 2 = 1)
        lo1 == IF up THEN lo + 1 ELSE lo
        hi1 == IF lo1 = Limb THEN hi + 1 ELSE hi
        lo2 == IF lo1 = Limb THEN 0 ELSE lo1
    IN  IF hi1 = 2 * Limb THEN [hi |-> Limb, lo |-> 0, e |-> e + 1]
        ELSE [hi |-> hi1, lo |-> lo2, e |-> e]

RECURSIVE NormShift(_, _)
NormShift(k, n) == IF k >= n THEN 0 ELSE 1 + NormShift(2 * k, n)

\* the double k / n for integers 0 <= k <= n
FromRatio(k, n) ==
    IF k = 0 THEN FZero
    ELSE LET s == NormShift(k, n)
             r0 == k * Pow2(s) - n
             hi == Limb + (r0 * Limb) \div n
             r1 == (r0 * Limb) % n
             lo == (r1 * Limb) \div n
             r2 == (r1 * Limb) % n
         IN  FRound(hi, lo, 0 - s - 52, Cmp(2 * r2, n))

Double(r) == FromRatio(r.num, r.den)

\* x + y
FAdd(x, y) ==
    IF x = FZero THEN y
    ELSE IF y = FZero THEN x
    ELSE LET a == IF x.e >= y.e THEN x ELSE y
             b == IF x.e >= y.e THEN y ELSE x
             P == Pow2(a.e - b.e)
             bhi == b.hi \div P
             blo == (b.hi % P) * (Limb \div P) + b.lo \div P
             f == b.lo % P
             los == a.lo + blo
             hi == a.hi + bhi + los \div Limb
             lo == los % Limb
         IN  IF hi < 2 * Limb
             THEN FRound(hi, lo, a.e, Cmp(2 * f, P))
             ELSE FRound(hi \div 2, (hi % 2) * (Limb \div 2) + lo \div 2, a.e + 1,
                         IF lo % 2 = 0 THEN 0 - 1 ELSE IF f > 0 THEN 1 ELSE 0)

\* the quotient of x * 2^s by the integer d, and its remainder
DivShifted(x, d, s) ==
    LET hi2 == x.hi * Pow2(s)
        rest == (hi2 % d) * Limb + x.lo * Pow2(s)
        q2 == rest \div d
    IN  [hi |-> hi2 \div d + q2 \div Limb, lo |-> q2 % Limb, rem |-> rest % d]

\* x / d for an integer d >= 1
FDivInt(x, d) ==
    IF x = FZero THEN FZero
    ELSE LET s == CHOOSE t \in 0..3 :
                    /\ DivShifted(x, d, t).hi >= Limb
                    /\ \A u \in 0..(t - 1) : DivShifted(x, d, u).hi < Limb
             q == DivShifted(x, d, s)
         IN  FRound(q.hi, q.lo, x.e - s, Cmp(2 * q.rem, d))

FGeq(x, y) ==
    IF y = FZero THEN TRUE
    ELSE IF x = FZero THEN FALSE
    ELSE \/ x.e > y.e
         \/ x.e = y.e /\ x.hi > y.hi
         \/ x.e = y.e /\ x.hi = y.hi /\ x.lo >= y.lo

\* sum(precisions) on CPython up to 3.11: 0 + p1 + p2 + ..., left to right,
\* rounding after every addition
RECURSIVE sum_left_to_right(_)
sum_left_to_right(s) ==
    IF s = <<>> THEN FZero
    ELSE FAdd(sum_left_to_right(SubSeq(s, 1, Len(s) - 1)), Double(s[Len(s)]))

\* Fixed point in units of 2^-FixUnit on three limbs of 26 bits,
\* [l2, l1, l0] = l2 * 2^52 + l1 * 2^26 + l0: the doubles of the model
\* (at least 2^-8, below 2^18) and their sums are exact in it.
FixUnit == 60
FixZero == [l2 |-> 0, l1 |-> 0, l0 |-> 0]

RECURSIVE BitLen(_)
BitLen(n) == IF n = 0 THEN 0 ELSE 1 + BitLen(n \div 2)

Fixed(x) ==
    IF x = FZero THEN FixZero
    ELSE LET sh == x.e + FixUnit
             Q == Pow2(26 - sh)
         IN  [l2 |-> x.hi \div Q,
              l1 |-> (x.hi % Q) * Pow2(sh) + x.lo \div Q,
              l0 |-> (x.lo % Q) * Pow2(sh)]

FixAdd(a, b) ==
    LET l0 == a.l0 + b.l0
        l1 == a.l1 + b.l1 + l0 \div Limb
    IN  [l2 |-> a.l2 + b.l2 + l1 \div Limb, l1 |-> l1 % Limb, l0 |-> l0 % Limb]

\* the double nearest to a fixed-point value
FixRound(n) ==
    IF n = FixZero THEN FZero
    ELSE LET D == BitLen(n.l2) - 1
             P == Pow2(D)
             Q == Limb \div P
         IN  FRound(n.l2 * Q + n.l1 \div P, (n.l1 % P) * Q + n.l0 \div P,
                    D - FixUnit, Cmp(2 * (n.l0 % P), P))

RECURSIVE FixSum(_)
FixSum(s) == IF s = <<>> THEN FixZero
             ELSE FixAdd(FixSum(SubSeq(s, 1, Len(s) - 1)), Fixed(Double(s[Len(s)])))

\* sum(precisions) on CPython from 3.12: the running sum f_result and the
\* compensation c of the rounding errors, added at the end.  For the few
\* doubles of like magnitude summed here every error term is exact and c holds
\* their exact total, so f_result + c is the exact sum rounded once.
sum_compensated(s) == FixRound(FixSum(s))

\* the values sum(precisions) can take: the interpreter decides which
FSum(s) == {sum_left_to_right(s), sum_compensated(s)}

\* the values sum(precisions) / len(precisions) can take, for a non-empty list
Mean(s) == {FDivInt(total, Len(s)) : total \in FSum(s)}

(***************************************************************************)
(* str.lower and urllib.parse.quote_plus on the strings of the model.      *)
(***************************************************************************)
LowerTable == ("Python" :> "python") @@ ("SQL" :> "sql")
Lower(s) == IF s \in DOMAIN LowerTable THEN LowerTable[s] ELSE s
LowerAll(s) == [i \in 1..Len(s) |-> Lower(s[i])]

QuoteTable == ("Data Analyst" :> "Data+Analyst") @@ ("C++ Dev" :> "C%2B%2B+Dev")
quote_plus(s) == IF s \in DOMAIN QuoteTable THEN QuoteTable[s] ELSE s

(***************************************************************************)
(* calculate_precision                                                     *)
(***************************************************************************)
calculate_precision(user_skills, vacancy_skills) ==
    IF Len(vacancy_skills) = 0 THEN Rat(0, 1)
    ELSE Rat(Cardinality(ToSet(user_skills) \cap ToSet(vacancy_skills)),
             Len(vacancy_skills))

(***************************************************************************)
(* get_top_vacancies                                                       *)
(***************************************************************************)
\* insert x into the ascending list s after every element not greater than it
StableInsert(s, x) ==
    LET p == Cardinality({i \in DOMAIN s : ~RatLess(x.similarity, s[i].similarity)})
    IN  SubSeq(s, 1, p) \o <<x>> \o SubSeq(s, p + 1, Len(s))

RECURSIVE StableSortAsc(_)
StableSortAsc(s) ==
    IF s = <<>> THEN <<>>
    ELSE StableInsert(StableSortAsc(SubSeq(s, 1, Len(s) - 1)), s[Len(s)])

\* a descending sort that reverses the ascending one: equal keys come out in
\* reverse input order
sorted_reverse_unstable(s) == Reverse(StableSortAsc(s))

\* sorted(s, key=similarity, reverse=True): list.sort reverses the list, sorts
\* it stably in ascending order and reverses it again
sorted_reverse(s) == Reverse(StableSortAsc(Reverse(s)))

\* s[:n]
SliceTo(s, n) ==
    LET stop == IF n < 0 THEN Max(Len(s) + n, 0) ELSE Min(n, Len(s))
    IN  SubSeq(s, 1, stop)

get_top_vacancies(vs, top_n) == SliceTo(sorted_reverse(vs), top_n)

(***************************************************************************)
(* recommend_courses, get_missing_skills, generate_recommendations         *)
(***************************************************************************)
recommend_courses(skill_list) ==
    [i \in 1..Len(skill_list) |-> <<skill_list[i], CourseraSearch \o skill_list[i]>>]

\* the set behind list(set(required_skills) - set(user_skills))
get_missing_skills(user_skills, required_skills) ==
    ToSet(required_skills) \ ToSet(user_skills)

\* the loop of generate_recommendations: missing_skills after the last vacancy
missing_skill_union(user_skills, vs, threshold) ==
    UNION {get_missing_skills(user_skills, vs[i].vacancy_skills) :
             i \in {j \in DOMAIN vs : RatLess(vs[j].similarity, threshold)}}

\* list(a_set): the elements in the set's iteration order.  For a set of str
\* that order follows the string hashes, which are salted per process, so
\* every order of the elements is an outcome.
ListsOfSet(S) == {s \in [1..Cardinality(S) -> S] : ToSet(s) = S}

\* the branch with the comparison len(missing_skills) >= 3
generate_recommendations_geq(vacancy_title, missing) ==
    IF Cardinality(missing) >= MaxCourseSkills
    THEN {PyStr(CourseraSearch \o quote_plus(vacancy_title))}
    ELSE IF missing # {}
    THEN {PyList(recommend_courses(order)) : order \in ListsOfSet(missing)}
    ELSE {None}

\* the if / elif after the loop: the values the call can return, one for
\* each order list(missing_skills) can have
generate_recommendations(vacancy_title, missing) ==
    IF Cardinality(missing) > MaxCourseSkills
    THEN {PyStr(CourseraSearch \o quote_plus(vacancy_title))}
    ELSE IF missing # {}
    THEN {PyList(recommend_courses(order)) : order \in ListsOfSet(missing)}
    ELSE {None}

(***************************************************************************)
(* Inputs.                                                                 *)
(***************************************************************************)
Titles == {"Data Analyst", "QA"}
Thresholds == {[num |-> 2, den |-> 5], [num |-> 4, den |-> 5], [num |-> 1, den |-> 1]}

\* skills accumulated by add_skill: stripped, non-empty, no entry twice
SessionSkills ==
    {<<>>, <<"Python">>, <<"Python", "sql">>, <<"Python", "sql", "docker", "react">>}

\* key_skills of a posting, as the API returns them: none, a skill in either
\* case, the same skill twice, skills the applicant may lack; the last two
\* give the precisions 3/5 and 4/5 whose sum with 1 depends on the interpreter
KeySkillLists ==
    {<<>>, <<"Python">>, <<"sql">>, <<"Python", "python">>, <<"Python", "sql">>,
     <<"aws", "SQL">>, <<"docker", "react", "aws">>,
     <<"python", "sql", "docker", "aws", "aws">>,
     <<"python", "sql", "docker", "react", "aws">>}

\* what the easyoffer lookup yields: a list of questions, or "" on a failed request
InterviewAnswers == {PyList(<<"q1">>), PyStr("")}

PostingName(i) == <<"v", i>>

\* the dict appended to vacancies (name and the computed fields; alternate_url
\* and description are copied through and play no part)
vacancy_record(name, user_skills, vacancy_skills) ==
    [name |-> name,
     vacancy_skills |-> vacancy_skills,
     similarity |-> calculate_precision(user_skills, vacancy_skills)]

\* the comparison similarity_score > threshold_ready
is_ready_strict(similarity_score, threshold) ==
    ~FGeq(Double(threshold), similarity_score)

\* if similarity_score >= threshold_ready
is_ready(similarity_score, threshold) ==
    FGeq(similarity_score, Double(threshold))

\* gaussian_kde(precision_list, bw_method=0.3) raises unless the samples take
\* at least two distinct values
kde_fails(precision_list) == Cardinality(ToSet(precision_list)) < 2

(***************************************************************************)
(* Spec: the Send handler of app.py.                                       *)
(***************************************************************************)
FnIdle ==
    /\ args = <<>>
    /\ ret = Unset
    /\ ret2 = Unset
    /\ fpc = "off"

AppIdle ==
    /\ position = ""
    /\ skills = <<>>
    /\ links = <<>>
    /\ threshold_ready = DefaultThreshold
    /\ pc = "off"
    /\ responses = <<>>
    /\ applicant_skills = <<>>
    /\ precisions = <<>>
    /\ vacancies = <<>>
    /\ missing_skills = {}
    /\ result = Unset
    /\ exc = "none"
    /\ ui = "none"

Init ==
    /\ position \in Titles
    /\ skills \in SessionSkills
    /\ links \in {[i \in 1..k |-> <<"link", i>>] : k \in 0..MaxLinks}
    /\ threshold_ready \in Thresholds
    /\ pc = "idle"
    /\ responses = <<>>
    /\ applicant_skills = <<>>
    /\ precisions = <<>>
    /\ vacancies = <<>>
    /\ missing_skills = {}
    /\ result = Unset
    /\ exc = "none"
    /\ ui = "none"
    /\ FnIdle

\* right.button("Send"): get_links has produced links; the call starts
Send ==
    /\ pc = "idle"
    /\ applicant_skills' = LowerAll(skills)
    /\ precisions' = <<>>
    /\ vacancies' = <<>>
    /\ pc' = "loop"
    /\ UNCHANGED <<position, skills, links, threshold_ready, responses,
                   missing_skills, result, exc, ui>>
    /\ UNCHANGED fnVars

\* one iteration of "for link in links"
FetchLink ==
    /\ pc = "loop"
    /\ Len(responses) < Len(links)
    /\ \/ \* requests.get / raise_for_status / json raises RequestException:
          \* the except clause returns None
          /\ responses' = Append(responses, "error")
          /\ result' = None
          /\ pc' = "returned"
          /\ UNCHANGED <<precisions, vacancies>>
       \/ \E key_skills \in KeySkillLists :
            LET vacancy_skills == LowerAll(key_skills)
                v == vacancy_record(PostingName(Len(responses) + 1),
                                    applicant_skills, vacancy_skills)
            IN  /\ responses' = Append(responses, "ok")
                /\ precisions' = Append(precisions, v.similarity)
                /\ vacancies' = Append(vacancies, v)
                /\ UNCHANGED <<result, pc>>
    /\ UNCHANGED <<position, skills, links, threshold_ready, applicant_skills,
                   missing_skills, exc, ui>>
    /\ UNCHANGED fnVars

\* after the loop: the aggregate score, the branch, the return
Analyze ==
    /\ pc = "loop"
    /\ Len(responses) = Len(links)
    /\ IF Len(precisions) = 0
       THEN \* sum([]) / len([]): ZeroDivisionError is no RequestException
            /\ exc' = "ZeroDivisionError"
            /\ pc' = "raised"
            /\ UNCHANGED <<result, missing_skills>>
       ELSE \E similarity_score \in Mean(precisions) :
            LET base == [similarity_score |-> similarity_score,
                     precision_list |-> precisions]
            IN  /\ IF is_ready(similarity_score, threshold_ready)
                   THEN /\ \E q \in InterviewAnswers :
                             result' = PyDict(base @@
                                 [questions |-> q,
                                  offers |-> get_top_vacancies(vacancies, DefaultTopN)])
                        /\ UNCHANGED missing_skills
                   ELSE LET missing == missing_skill_union(applicant_skills,
                                           vacancies, DefaultThreshold)
                        IN  /\ missing_skills' = missing
                            /\ \E recommendations \in
                                    generate_recommendations(position, missing) :
                                 result' = PyDict(base @@
                                     [recommendations |-> recommendations])
                /\ pc' = "returned"
                /\ exc' = exc
    /\ UNCHANGED <<position, skills, links, threshold_ready, responses,
                   applicant_skills, precisions, vacancies, ui>>
    /\ UNCHANGED fnVars

\* app.py after the call: the two branches of the page
Render ==
    /\ pc = "returned"
    /\ IF result.type # "dict"
       THEN \* "questions" in None
            /\ exc' = "TypeError"
            /\ pc' = "raised"
            /\ ui' = ui
       ELSE IF kde_fails(result.val.precision_list)
       THEN \* plotly_kde_distribution raises after the subheader and the metric
            /\ exc' = "EstimationError"
            /\ pc' = "raised"
            /\ ui' = ui
       ELSE IF "questions" \in DOMAIN result.val /\ "offers" \in DOMAIN result.val
       THEN /\ ui' = "ready"
            /\ pc' = "done"
            /\ exc' = exc
       ELSE LET recommendations ==
                    IF "recommendations" \in DOMAIN result.val
                    THEN result.val.recommendations ELSE None
            IN  IF recommendations.type = "str"
                THEN /\ ui' = "course_link"
                     /\ pc' = "done"
                     /\ exc' = exc
                ELSE IF recommendations.type = "list"
                THEN /\ ui' = "course_list"
                     /\ pc' = "done"
                     /\ exc' = exc
                ELSE \* for skill, link in None
                     /\ exc' = "TypeError"
                     /\ pc' = "raised"
                     /\ ui' = "course_list_header"
    /\ UNCHANGED <<position, skills, links, threshold_ready, responses,
                   applicant_skills, precisions, vacancies, missing_skills, result>>
    /\ UNCHANGED fnVars

Next == Send \/ FetchLink \/ Analyze \/ Render

Spec == Init /\ [][Next]_vars

(***************************************************************************)
(* SpecTop: get_top_vacancies(vacancies, top_n) on its own.                *)
(***************************************************************************)
TopSimilarities == {[num |-> 0, den |-> 1], [num |-> 1, den |-> 2], [num |-> 1, den |-> 1]}
TopRecords == [name : {"x", "y"}, similarity : TopSimilarities]

InitTop ==
    /\ AppIdle
    /\ args \in [vacancies : SeqsUpTo(TopRecords, MaxTopLen),
                  top_n : (0 - MaxTopN)..MaxTopN]
    /\ ret = Unset
    /\ ret2 = Unset
    /\ fpc = "ready"

CallTop ==
    /\ fpc = "ready"
    /\ ret' = get_top_vacancies(args.vacancies, args.top_n)
    /\ fpc' = "called"
    /\ UNCHANGED <<args, ret2>>
    /\ UNCHANGED appVars

\* the function applied to its own result, with the same top_n
CallTopAgain ==
    /\ fpc = "called"
    /\ ret2' = get_top_vacancies(ret, args.top_n)
    /\ fpc' = "twice"
    /\ UNCHANGED <<args, ret>>
    /\ UNCHANGED appVars

NextTop == CallTop \/ CallTopAgain

SpecTop == InitTop /\ [][NextTop]_vars

(***************************************************************************)
(* SpecRec: generate_recommendations(vacancy_title, applicant_skills,      *)
(* vacancies, threshold) on its own.  The vacancies are records as the     *)
(* pipeline builds them: similarity is the precision of vacancy_skills.    *)
(***************************************************************************)
RecSkills == {"sql", "docker", "react", "aws"}
RecApplicants == {<<>>, <<"sql">>}
\* vacancy_skills lists: none, one or two entries, an entry possibly twice
RecSkillLists == SeqsUpTo(RecSkills, 2)

InitRec ==
    /\ AppIdle
    /\ \E t \in Titles, a \in RecApplicants, th \in Thresholds,
          ls \in SeqsUpTo(RecSkillLists, MaxRecVac) :
          args = [vacancy_title |-> t,
                  applicant_skills |-> a,
                  vacancies |-> [i \in DOMAIN ls |->
                                   vacancy_record(PostingName(i), a, ls[i])],
                  threshold |-> th]
    /\ ret = Unset
    /\ ret2 = Unset
    /\ fpc = "ready"

CallRec ==
    /\ fpc = "ready"
    /\ LET missing == missing_skill_union(args.applicant_skills,
                                          args.vacancies, args.threshold)
       IN  ret' \in generate_recommendations(args.vacancy_title, missing)
    /\ fpc' = "called"
    /\ UNCHANGED <<args, ret2>>
    /\ UNCHANGED appVars

NextRec == CallRec

SpecRec == InitRec /\ [][NextRec]_vars

(***************************************************************************)
(* Properties.                                                             *)
(***************************************************************************)
\* vacancy_description_and_applicant_skills has returned or raised
CallEnded == pc \in {"returned", "done", "raised"}

HasReady(r) == "questions" \in DOMAIN r.val /\ "offers" \in DOMAIN r.val
HasNotReady(r) == "recommendations" \in DOMAIN r.val

RECURSIVE ProdDen(_)
ProdDen(s) == IF s = <<>> THEN 1 ELSE s[1].den * ProdDen(Tail(s))

RECURSIVE ScaledSum(_, _)
ScaledSum(s, D) ==
    IF s = <<>> THEN 0 ELSE s[1].num * (D \div s[1].den) + ScaledSum(Tail(s), D)

\* (s[1] + ... + s[n]) / n >= t, over the common denominator of the s[i]
MeanAtLeast(s, t) ==
    LET D == ProdDen(s)
    IN  ScaledSum(s, D) * t.den >= t.num * D * Len(s)

Similarities(vs) == [i \in DOMAIN vs |-> vs[i].similarity]

\* the skills required by the vacancies below t that the applicant lacks
MissingBelow(user_skills, vs, t) ==
    {sk \in UNION {ToSet(vs[i].vacancy_skills) : i \in DOMAIN vs} :
        /\ sk \notin ToSet(user_skills)
        /\ \E i \in DOMAIN vs :
              /\ sk \in ToSet(vs[i].vacancy_skills)
              /\ vs[i].similarity.num * t.den < t.num * vs[i].similarity.den}

\* C1: when some fetches fail and some succeed, the failed ones are skipped:
\* every link is tried, and the call returns a result computed over the
\* vacancies that were fetched, not a no-result value.
C1_FailedFetchIsSkipped ==
    (CallEnded /\ "error" \in ToSet(responses) /\ "ok" \in ToSet(responses)) =>
        /\ Len(responses) = Len(links)
        /\ result.type = "dict"
        /\ result.val.precision_list = Similarities(vacancies)

\* C2: with no vacancy record (no link, or no link that yields one) the call
\* does not reach the aggregate score: nothing is raised out of it, and it
\* returns a value that is not a NotReady result.
C2_EmptyInputFailure ==
    (CallEnded /\ vacancies = <<>>) =>
        /\ exc # "ZeroDivisionError"
        /\ result.type # "unset"
        /\ result.type = "dict" => ~HasNotReady(result)

\* C3 as stated: once every link is fetched and there is at least one
\* vacancy, the result has the keys questions and offers exactly when the
\* mean of the precisions (the arithmetic mean of the fractions) is at least
\* threshold_ready, the key recommendations exactly when it is not, and never
\* a key of the other branch.
C3_ReadyIffExactMeanAtLeastThreshold ==
    (CallEnded /\ vacancies # <<>> /\ Len(vacancies) = Len(links)) =>
        /\ result.type = "dict"
        /\ result.val.precision_list = Similarities(vacancies)
        /\ IF MeanAtLeast(Similarities(vacancies), threshold_ready)
           THEN /\ HasReady(result)
                /\ ~HasNotReady(result)
           ELSE /\ HasNotReady(result)
                /\ "questions" \notin DOMAIN result.val
                /\ "offers" \notin DOMAIN result.val

\* C3 amended: the same, with the mean taken as the code computes it: the
\* double sum(precisions) / len(precisions), one of the values the
\* interpreter's sum can give, which the result carries as similarity_score,
\* compared with the double threshold_ready.
C3_ReadyIffScoreAtLeastThreshold ==
    (CallEnded /\ vacancies # <<>> /\ Len(vacancies) = Len(links)) =>
        /\ result.type = "dict"
        /\ result.val.precision_list = Similarities(vacancies)
        /\ result.val.similarity_score \in Mean(Similarities(vacancies))
        /\ IF FGeq(result.val.similarity_score, Double(threshold_ready))
           THEN /\ HasReady(result)
                /\ ~HasNotReady(result)
           ELSE /\ HasNotReady(result)
                /\ "questions" \notin DOMAIN result.val
                /\ "offers" \notin DOMAIN result.val

\* a Ready result at the boundary: three vacancies, score equal to the threshold
C3_Witness ==
    /\ pc = "returned"
    /\ Len(vacancies) = 3
    /\ threshold_ready = [num |-> 1, den |-> 1]
    /\ result.type = "dict"
    /\ HasReady(result)
    /\ result.val.similarity_score = Double(threshold_ready)

\* C4: in the NotReady branch the missing-skill union is taken over exactly
\* the vacancies whose precision is below the threshold_ready of the call.
C4_SameThresholdInEngine ==
    (CallEnded /\ result.type = "dict" /\ HasNotReady(result)) =>
        missing_skills = MissingBelow(applicant_skills, vacancies, threshold_ready)

\* C5: the precision of every vacancy record is 0 for an empty requirement
\* list, lies in [0,1], equals |distinct skills in S and R| / |distinct
\* skills in R|, and is 1 exactly when R is non-empty and included in S.
C5_PrecisionOverDistinctSkills ==
    \A i \in DOMAIN vacancies :
        LET S == ToSet(applicant_skills)
            R == ToSet(vacancies[i].vacancy_skills)
            p == vacancies[i].similarity
        IN  /\ R = {} => p.num = 0
            /\ 0 <= p.num /\ p.num <= p.den
            /\ R # {} => p.num * Cardinality(R) = Cardinality(S \cap R) * p.den
            /\ (p.num = p.den) <=> (R # {} /\ R \subseteq S)

\* C6: get_top_vacancies(vacancies, n) is empty for every n <= 0.
C6_NonPositiveNIsEmpty ==
    (fpc \in {"called", "twice"} /\ args.top_n <= 0) => ret = <<>>

\* the indices of vs by similarity descending, equal similarities by index
RankOrder(vs) ==
    CHOOSE p \in [1..Len(vs) -> 1..Len(vs)] :
        \A i, j \in 1..Len(vs) :
            i < j =>
              \/ vs[p[j]].similarity.num * vs[p[i]].similarity.den
                    < vs[p[i]].similarity.num * vs[p[j]].similarity.den
              \/ /\ vs[p[j]].similarity = vs[p[i]].similarity
                 /\ p[i] < p[j]

\* C7: for n >= 1 get_top_vacancies returns the first min(n, |vacancies|)
\* elements of the input ordered by similarity descending, equal similarities
\* in input order; applying it to its own result changes nothing.
C7_StableTopN ==
    (fpc \in {"called", "twice"} /\ args.top_n >= 1) =>
        /\ ret = [i \in 1..Min(args.top_n, Len(args.vacancies)) |->
                     args.vacancies[RankOrder(args.vacancies)[i]]]
        /\ fpc = "twice" => ret2 = ret

\* an unsorted input with a tie, cut to two elements, applied twice
C7_Witness ==
    /\ fpc = "twice"
    /\ args.top_n = 2
    /\ Len(args.vacancies) = 3
    /\ args.vacancies[1].similarity.num = 0
    /\ args.vacancies[2].similarity = args.vacancies[3].similarity
    /\ args.vacancies[2].name # args.vacancies[3].name
    /\ ret = <<args.vacancies[2], args.vacancies[3]>>

\* C8: with U the missing-skill union over the vacancies below threshold:
\* more than 3 skills in U give a single link (a string); 1, 2 or 3 give a
\* course list with exactly |U| entries (skill, url), one per skill of U.
C8_ShapeByCardinality ==
    fpc = "called" =>
        LET U == MissingBelow(args.applicant_skills, args.vacancies, args.threshold)
        IN  /\ Cardinality(U) > 3 => ret.type = "str"
            /\ Cardinality(U) \in 1..3 =>
                  /\ ret.type = "list"
                  /\ Len(ret.val) = Cardinality(U)
                  /\ {ret.val[i][1] : i \in DOMAIN ret.val} = U
                  /\ \A i \in DOMAIN ret.val :
                        ret.val[i][2] = CourseraSearch \o ret.val[i][1]

\* a course list of exactly three entries gathered from two vacancies
C8_Witness ==
    /\ fpc = "called"
    /\ Len(args.vacancies) = 2
    /\ ret.type = "list"
    /\ Len(ret.val) = 3

\* C9: a NotReady outcome with an empty missing-skill union is an explicit
\* error: the call does not return a NotReady result whose recommendation is
\* absent, and the page does not iterate the absent recommendation as a
\* course list.
C9_DegenerateRecommendationIsError ==
    (CallEnded /\ result.type = "dict" /\ HasNotReady(result)
       /\ missing_skills = {}) =>
        /\ result.val.recommendations.type # "NoneType"
        /\ ~(exc = "TypeError" /\ ui = "course_list_header")

RECURSIVE Flatten(_)
Flatten(ss) == IF ss = <<>> THEN <<>> ELSE ss[1] \o Flatten(Tail(ss))

RECURSIVE FirstSeen(_, _)
FirstSeen(s, seen) ==
    IF s = <<>> THEN <<>>
    ELSE IF s[1] \in seen THEN FirstSeen(Tail(s), seen)
    ELSE <<s[1]>> \o FirstSeen(Tail(s), seen \cup {s[1]})

\* the missing skills in the order of first discovery: the vacancies below
\* t in input order, the vacancy_skills of each in list order
DiscoveryOrder(user_skills, vs, t) ==
    FirstSeen(
        Flatten([i \in DOMAIN vs |->
                   IF vs[i].similarity.num * t.den < t.num * vs[i].similarity.den
                   THEN vs[i].vacancy_skills ELSE <<>>]),
        ToSet(user_skills))

\* C10: the entries of a course list come in the order in which the missing
\* skills are first discovered over the below-threshold vacancies.
C10_DiscoveryOrder ==
    (fpc = "called" /\ ret.type = "list") =>
        [i \in DOMAIN ret.val |-> ret.val[i][1]]
            = DiscoveryOrder(args.applicant_skills, args.vacancies, args.threshold)

====
